---- MODULE Spec2Model ----
(***************************************************************************)
(* Account validity handler of synapse                                     *)
(* (src/synapse/handlers/account_validity.py): the periodic scan that      *)
(* mails renewal links, the issuance of renewal tokens, and the renewal    *)
(* of an account by token.  The handler's coroutines are cut at their      *)
(* yields: one action per suspension point.  The datastore, the clock and  *)
(* the mail transport are collaborators outside the file; their            *)
(* behaviour follows the design document.                                  *)
(***************************************************************************)
EXTENDS Integers, Sequences, FiniteSets, TLC

\* ------------------------------------------------------------ bounds
MaxTime == 1        \* the clock runs from 0 to MaxTime
MaxFaults == 1      \* store / transport failures injected in one behaviour

\* ------------------------------------------------- program constants
MaxAttempts == 5    \* while attempts < 5
Period == 2         \* self._account_validity.period
Window == 1         \* look-ahead window of get_users_expiring_soon

Users == {"u1", "u2"}
NoUser == "none"
Deferred == "Deferred"      \* a twisted Deferred object, not its result
Tokens == {"t1", "t2"}      \* what random_string(32) may return
NoToken == "none"

\* The threepid tables the identity store may hold (read-only here).
ThreepidTables ==
  { [u1 |-> << [medium |-> "email", address |-> "a1"],
               [medium |-> "msisdn", address |-> "p1"],
               [medium |-> "email", address |-> "a2"] >>,
     u2 |-> << [medium |-> "email", address |-> "b1"] >>],
    [u1 |-> << [medium |-> "msisdn", address |-> "p1"] >>,
     u2 |-> << [medium |-> "email", address |-> "b1"],
               [medium |-> "email", address |-> "b2"] >>] }

Addresses == {"a1", "a2", "b1", "b2", "p1"}

VARIABLES
  now,               \* clock.time_msec()
  expiration_ts,     \* store: account -> expiration_ts_ms
  email_sent,        \* store: account -> the notified flag
  renewal_token,     \* store: account -> its renewal token, or NoToken
  threepids,         \* store: account -> list of threepids
  lookup,            \* store: how get_user_from_renewal_token answers
  faults,            \* failures injected so far
  pc,                \* where send_renewal_emails is suspended
  expiring_users,    \* candidates not yet finished; the head is in progress
  addresses,         \* addresses the send loop has still to visit
  attempts,          \* _get_renewal_token's counter
  url_token,         \* renewal_token of send_renewal_email_to_user
  user_display_name, \* display name used by the templates
  cyc,               \* record of the running (or last) scan cycle
  mail,              \* sendmail calls of the cycle, in order
  tokenCall,         \* record of _get_renewal_token, until its caller goes on
  sentOK,            \* address -> mails accepted since the account's renewal
  failures,          \* account -> cycles since its renewal that failed in
                     \* a send or in the flag update
  rpc,               \* renew_account: "idle", suspended at "write", or
                     \* how the last call ended
  ruser,             \* renew_account's user
  rts,               \* renew_account's new_expiration_date
  rowner,            \* the account the token of the call mapped to
  raced              \* account -> a renewal landed while a cycle held it

store == <<expiration_ts, email_sent, renewal_token, threepids, lookup>>
scanner == <<pc, expiring_users, addresses, attempts, url_token,
             user_display_name>>
history == <<cyc, mail, tokenCall, sentOK, failures, raced>>
renewer == <<rpc, ruser, rts, rowner>>
vars == <<now, store, faults, scanner, history, renewer>>

Range(s) == {s[i] : i \in DOMAIN s}

\* All orders in which a query may return the rows of S.
Orders(S) ==
  {s \in [1..Cardinality(S) -> S] : \A i, j \in DOMAIN s : i # j => s[i] # s[j]}

RECURSIVE email_addresses(_, _)
\* addresses of line 147-150: the threepids with medium "email", in order
email_addresses(tps, acc) ==
  IF tps = <<>> THEN acc
  ELSE email_addresses(Tail(tps),
                  IF Head(tps).medium = "email"
                  THEN Append(acc, Head(tps).address) ELSE acc)

\* variant: every threepid is taken for an email address
get_email_addresses_for_user_any_medium(user) ==
  [i \in DOMAIN threepids[user] |-> threepids[user][i].address]

get_email_addresses_for_user(user) == email_addresses(threepids[user], <<>>)

EmailsOf(user) == Range(get_email_addresses_for_user(user))

\* ------------------------------------------------------------ store
Expiring(u) ==
  now <= expiration_ts[u] /\ expiration_ts[u] <= now + Window

Row(u) == [user_id |-> u, expiration_ts_ms |-> expiration_ts[u]]

\* variant: the query forgets the notified flag
get_users_expiring_soon_ignoring_flag == {Row(u) : u \in {v \in Users : Expiring(v)}}

\* the accounts inside the look-ahead window that are not notified yet
get_users_expiring_soon ==
  {Row(u) : u \in {v \in Users : Expiring(v) /\ ~email_sent[v]}}

\* variant: the store takes any token
token_write_accepted_always(token) == TRUE

\* set_renewal_token_for_user: the write is rejected when the token exists
token_write_accepted(token) == \A u \in Users : renewal_token[u] # token

get_user_from_renewal_token(token) ==
  IF \E u \in Users : renewal_token[u] = token
  THEN CHOOSE u \in Users : renewal_token[u] = token
  ELSE NoUser

NewCycle(cands) ==
  [candidates |-> cands,
   notifiedAtQuery |-> {u \in Users : email_sent[u]},
   started |-> {}, tokenIssued |-> {}, marked |-> {},
   failed |-> NoUser, stage |-> "none",
   outcome |-> "running"]

NoTokenCall == [user |-> NoUser, tries |-> 0, outcome |-> "none"]

Init ==
  /\ now = 0
  /\ expiration_ts = [u1 |-> 0, u2 |-> 1]
  /\ email_sent = [u \in Users |-> FALSE]
  /\ renewal_token = [u \in Users |-> NoToken]
  /\ threepids \in ThreepidTables
  /\ lookup \in {"value", "Deferred"}
  /\ faults = 0
  /\ pc = "idle"
  /\ expiring_users = <<>>
  /\ addresses = <<>>
  /\ attempts = 0
  /\ url_token = NoToken
  /\ user_display_name = "none"
  /\ cyc = [NewCycle({}) EXCEPT !.outcome = "none"]
  /\ mail = <<>>
  /\ tokenCall = NoTokenCall
  /\ sentOK = [a \in Addresses |-> 0]
  /\ failures = [u \in Users |-> 0]
  /\ rpc = "idle"
  /\ ruser = NoUser
  /\ rts = 0
  /\ rowner = NoUser
  /\ raced = [u \in Users |-> FALSE]

\* clock
Tick ==
  /\ now < MaxTime
  /\ now' = now + 1
  /\ UNCHANGED <<store, faults, scanner, history, renewer>>

\* ---------------------------------------------------- the scan cycle
CurrentUser == Head(expiring_users).user_id

\* The for statement of send_renewal_emails: take up the next candidate,
\* or finish the cycle when none is left.
Iterate(rest) ==
  /\ expiring_users' = rest
  /\ pc' = IF rest = <<>> THEN "idle" ELSE "threepids"
  /\ addresses' = <<>>
  /\ attempts' = 0
  /\ url_token' = NoToken
  /\ user_display_name' = "none"

Advance(c, rest) ==
  IF rest = <<>> THEN [c EXCEPT !.outcome = "ok"]
  ELSE [c EXCEPT !.started = @ \cup {Head(rest).user_id}]

\* An exception raised while a candidate is processed: nothing in
\* send_renewal_emails or send_renewal_email_to_user catches it, so it
\* leaves the for loop and fails the cycle's Deferred.
Abort(stage) ==
  /\ Iterate(<<>>)
  /\ cyc' = [cyc EXCEPT !.failed = CurrentUser, !.stage = stage,
                        !.outcome = "failed"]
  /\ failures' = [failures EXCEPT ![CurrentUser] =
                     IF stage \in {"send", "mark"} THEN @ + 1 ELSE @]

\* variant: the timer is not armed again once a call has failed
looping_call_stops_after_failure == pc = "idle" /\ cyc.outcome # "failed"

\* self.clock.looping_call(self.send_renewal_emails, 30 * 60 * 1000): the
\* timer calls send_renewal_emails again when the previous call has ended,
\* whether it ended well or in a failure.
looping_call == pc = "idle"

\* expiring_users = yield self.store.get_users_expiring_soon()
send_renewal_emails_query ==
  /\ looping_call
  /\ \E rows \in Orders(get_users_expiring_soon) :
       /\ Iterate(rows)
       /\ cyc' = Advance(NewCycle({r.user_id : r \in Range(rows)}), rows)
  /\ mail' = <<>>
  /\ tokenCall' = NoTokenCall
  /\ raced' = [u \in Users |-> FALSE]
  /\ UNCHANGED <<now, store, faults, sentOK, failures, renewer>>

send_renewal_emails_query_fails ==
  /\ looping_call
  /\ faults < MaxFaults
  /\ faults' = faults + 1
  /\ Iterate(<<>>)
  /\ cyc' = [NewCycle({}) EXCEPT !.stage = "query", !.outcome = "failed"]
  /\ mail' = <<>>
  /\ tokenCall' = NoTokenCall
  /\ raced' = [u \in Users |-> FALSE]
  /\ UNCHANGED <<now, store, sentOK, failures, renewer>>

\* threepids = yield self.store.user_get_threepids(user)
user_get_threepids ==
  /\ pc = "threepids"
  /\ addresses' = get_email_addresses_for_user(CurrentUser)
  /\ pc' = "displayname"
  /\ UNCHANGED <<now, store, faults, expiring_users, attempts, url_token,
                 user_display_name, history, renewer>>

user_get_threepids_fails ==
  /\ pc = "threepids"
  /\ faults < MaxFaults
  /\ faults' = faults + 1
  /\ Abort("threepids")
  /\ UNCHANGED <<now, store, mail, tokenCall, sentOK, raced, renewer>>

\* The profile lookup inside try / except StoreError; afterwards
\* _get_renewal_token starts with attempts = 0.
StartTokenCall(name) ==
  /\ user_display_name' = name
  /\ pc' = "token"
  /\ attempts' = 0
  /\ tokenCall' = [user |-> CurrentUser, tries |-> 0, outcome |-> "running"]
  /\ UNCHANGED <<now, store, faults, expiring_users, addresses, url_token,
                 cyc, mail, sentOK, failures, raced, renewer>>

get_profile_displayname_found ==
  /\ pc = "displayname"
  /\ StartTokenCall("profile")

\* the lookup returns None, or raises StoreError
get_profile_displayname_fallback ==
  /\ pc = "displayname"
  /\ \E outcome \in {"None", "StoreError"} : StartTokenCall(CurrentUser)

\* the lookup raises something that is not a StoreError
get_profile_displayname_raises ==
  /\ pc = "displayname"
  /\ faults < MaxFaults
  /\ faults' = faults + 1
  /\ Abort("displayname")
  /\ UNCHANGED <<now, store, mail, tokenCall, sentOK, raced, renewer>>

\* -------------------------------------------------- _get_renewal_token
\* variant: while attempts <= 5
retry_loop_guard_off_by_one(n) == n <= MaxAttempts

\* while attempts < 5
retry_loop_guard(n) == n < MaxAttempts

\* variant: an account without an email address is an error
get_renewal_token_accepted_needs_address ==
  /\ pc = "token"
  /\ \E token \in Tokens :
       /\ token_write_accepted(token)
       /\ renewal_token' = [renewal_token EXCEPT ![CurrentUser] = token]
       /\ url_token' = IF addresses = <<>> THEN NoToken ELSE token
  /\ tokenCall' = [tokenCall EXCEPT !.tries = @ + 1, !.outcome = "returned"]
  /\ IF addresses = <<>>
     THEN /\ pc' = "idle"
          /\ expiring_users' = <<>>
          /\ cyc' = [cyc EXCEPT !.tokenIssued = @ \cup {CurrentUser},
                                !.failed = CurrentUser, !.stage = "send",
                                !.outcome = "failed"]
     ELSE /\ pc' = "send"
          /\ expiring_users' = expiring_users
          /\ cyc' = [cyc EXCEPT !.tokenIssued = @ \cup {CurrentUser}]
  /\ UNCHANGED <<now, expiration_ts, email_sent, threepids, lookup, faults,
                 addresses, attempts, user_display_name,
                 mail, sentOK, failures, raced, renewer>>

\* random_string(32) is a token the store accepts: it is persisted and
\* returned; the send loop follows (or, with no address, the return to
\* send_renewal_emails).
get_renewal_token_accepted ==
  /\ pc = "token"
  /\ \E token \in Tokens :
       /\ token_write_accepted(token)
       /\ renewal_token' = [renewal_token EXCEPT ![CurrentUser] = token]
       /\ url_token' = token
  /\ tokenCall' = [tokenCall EXCEPT !.tries = @ + 1, !.outcome = "returned"]
  /\ pc' = IF addresses = <<>> THEN "mark" ELSE "send"
  /\ cyc' = [cyc EXCEPT !.tokenIssued = @ \cup {CurrentUser}]
  /\ UNCHANGED <<now, expiration_ts, email_sent, threepids, lookup, faults,
                 expiring_users, addresses, attempts, user_display_name,
                 mail, sentOK, failures, raced, renewer>>

\* the store raises StoreError (the token exists) and the loop goes on
get_renewal_token_retry ==
  /\ pc = "token"
  /\ \E token \in Tokens : ~token_write_accepted(token)
  /\ retry_loop_guard(attempts + 1)
  /\ attempts' = attempts + 1
  /\ tokenCall' = [tokenCall EXCEPT !.tries = @ + 1]
  /\ UNCHANGED <<now, store, faults, pc, expiring_users, addresses,
                 url_token, user_display_name, cyc, mail, sentOK, failures,
                 raced, renewer>>

\* variant: after the last rejected write the token is returned all the same
get_renewal_token_exhausted_returns_token ==
  /\ pc = "token"
  /\ \E token \in Tokens : ~token_write_accepted(token) /\ url_token' = token
  /\ ~retry_loop_guard(attempts + 1)
  /\ tokenCall' = [tokenCall EXCEPT !.tries = @ + 1, !.outcome = "returned"]
  /\ pc' = IF addresses = <<>> THEN "mark" ELSE "send"
  /\ UNCHANGED <<now, store, faults, expiring_users, addresses, attempts,
                 user_display_name, cyc, mail, sentOK, failures, raced,
                 renewer>>

\* the store raises StoreError and the loop ends: raise StoreError(500, ..)
get_renewal_token_exhausted ==
  /\ pc = "token"
  /\ \E token \in Tokens : ~token_write_accepted(token)
  /\ ~retry_loop_guard(attempts + 1)
  /\ tokenCall' = [tokenCall EXCEPT !.tries = @ + 1, !.outcome = "exhausted"]
  /\ Abort("token")
  /\ UNCHANGED <<now, store, faults, mail, sentOK, raced, renewer>>

\* ------------------------------------------------------ the send loop
Message(ok) ==
  [user |-> CurrentUser, to |-> Head(addresses), token |-> url_token,
   ok |-> ok]

\* yield make_deferred_yieldable(self.sendmail(...)) succeeds
sendmail_ok ==
  /\ pc = "send"
  /\ mail' = Append(mail, Message(TRUE))
  /\ sentOK' = [sentOK EXCEPT ![Head(addresses)] = @ + 1]
  /\ addresses' = Tail(addresses)
  /\ pc' = IF Tail(addresses) = <<>> THEN "mark" ELSE "send"
  /\ tokenCall' = NoTokenCall
  /\ UNCHANGED <<now, store, faults, expiring_users, attempts, url_token,
                 user_display_name, cyc, failures, raced, renewer>>

\* variant: the failure of a send is swallowed and the loop goes on
sendmail_fails_swallowed ==
  /\ pc = "send"
  /\ faults < MaxFaults
  /\ faults' = faults + 1
  /\ mail' = Append(mail, Message(FALSE))
  /\ addresses' = Tail(addresses)
  /\ pc' = IF Tail(addresses) = <<>> THEN "mark" ELSE "send"
  /\ tokenCall' = NoTokenCall
  /\ UNCHANGED <<now, store, expiring_users, attempts, url_token,
                 user_display_name, cyc, sentOK, failures, raced, renewer>>

\* the transport fails: the exception leaves the loop over the addresses
sendmail_fails ==
  /\ pc = "send"
  /\ faults < MaxFaults
  /\ faults' = faults + 1
  /\ mail' = Append(mail, Message(FALSE))
  /\ Abort("send")
  /\ tokenCall' = NoTokenCall
  /\ UNCHANGED <<now, store, sentOK, raced, renewer>>

\* ------------------------------------------- set_renewal_mail_status
\* variant: the flag update is left out
set_renewal_mail_status_skipped ==
  /\ pc = "mark"
  /\ Iterate(Tail(expiring_users))
  /\ cyc' = Advance(cyc, Tail(expiring_users))
  /\ tokenCall' = NoTokenCall
  /\ UNCHANGED <<now, store, faults, mail, sentOK, failures, raced, renewer>>

\* yield self.store.set_renewal_mail_status(user, email_sent=True), and
\* the next turn of the for loop
set_renewal_mail_status ==
  /\ pc = "mark"
  /\ email_sent' = [email_sent EXCEPT ![CurrentUser] = TRUE]
  /\ Iterate(Tail(expiring_users))
  /\ cyc' = Advance([cyc EXCEPT !.marked = @ \cup {CurrentUser}],
                    Tail(expiring_users))
  /\ tokenCall' = NoTokenCall
  /\ UNCHANGED <<now, expiration_ts, renewal_token, threepids, lookup, faults, mail,
                 sentOK, failures, raced, renewer>>

set_renewal_mail_status_fails ==
  /\ pc = "mark"
  /\ faults < MaxFaults
  /\ faults' = faults + 1
  /\ Abort("mark")
  /\ tokenCall' = NoTokenCall
  /\ UNCHANGED <<now, store, mail, sentOK, raced, renewer>>

\* ------------------------------------------------------ renew_account
\* Line 168 takes what get_user_from_renewal_token returns without
\* waiting on it.  A datastore that answers on the spot hands back the
\* account (or raises for an unknown token); one that answers through a
\* Deferred hands back the Deferred itself, and the outcome of the
\* lookup, an unknown token included, is never looked at.
Callable == rpc = "idle"

Pending == {u.user_id : u \in Range(expiring_users)}

\* renew_account's Deferred fires with result; its locals are gone
Returned(result) ==
  /\ rpc' = result
  /\ ruser' = NoUser
  /\ rts' = 0
  /\ rowner' = NoUser

\* the lookup raises at once: renew_account fails with that error
renew_account_unknown_token ==
  /\ Callable
  /\ lookup = "value"
  /\ \E token \in Tokens : get_user_from_renewal_token(token) = NoUser
  /\ Returned("UnknownToken")
  /\ UNCHANGED <<now, store, faults, scanner, history>>

\* the lookup hands back the account; lines 170-172 follow
renew_account_resolved ==
  /\ Callable
  /\ lookup = "value"
  /\ \E token \in Tokens :
       /\ get_user_from_renewal_token(token) # NoUser
       /\ ruser' = get_user_from_renewal_token(token)
       /\ rowner' = get_user_from_renewal_token(token)
  /\ rts' = now + Period
  /\ rpc' = "write"
  /\ UNCHANGED <<now, store, faults, scanner, history>>

\* the lookup hands back a Deferred; lines 170-172 follow with it
renew_account_unawaited ==
  /\ Callable
  /\ lookup = "Deferred"
  /\ \E token \in Tokens : rowner' = get_user_from_renewal_token(token)
  /\ ruser' = Deferred
  /\ rts' = now + Period
  /\ rpc' = "write"
  /\ UNCHANGED <<now, store, faults, scanner, history>>

\* variant: the renewal also takes the token away from the account
renew_account_for_user_consuming_token ==
  /\ rpc = "write"
  /\ ruser \in Users
  /\ expiration_ts' = [expiration_ts EXCEPT ![ruser] = rts]
  /\ email_sent' = [email_sent EXCEPT ![ruser] = FALSE]
  /\ renewal_token' = [renewal_token EXCEPT ![ruser] = NoToken]
  /\ sentOK' = [a \in Addresses |->
                  IF a \in EmailsOf(ruser) THEN 0 ELSE sentOK[a]]
  /\ failures' = [failures EXCEPT ![ruser] = 0]
  /\ raced' = [raced EXCEPT ![ruser] = @ \/ ruser \in Pending]
  /\ Returned("ok")
  /\ UNCHANGED <<now, threepids, lookup, faults, scanner, cyc, mail,
                 tokenCall>>

\* yield self.store.renew_account_for_user(user, new_expiration_ts): the
\* store sets the expiration and clears the notified flag of the account
renew_account_for_user ==
  /\ rpc = "write"
  /\ ruser \in Users
  /\ expiration_ts' = [expiration_ts EXCEPT ![ruser] = rts]
  /\ email_sent' = [email_sent EXCEPT ![ruser] = FALSE]
  /\ sentOK' = [a \in Addresses |->
                  IF a \in EmailsOf(ruser) THEN 0 ELSE sentOK[a]]
  /\ failures' = [failures EXCEPT ![ruser] = 0]
  /\ raced' = [raced EXCEPT ![ruser] = @ \/ ruser \in Pending]
  /\ Returned("ok")
  /\ UNCHANGED <<now, renewal_token, threepids, lookup, faults, scanner, cyc, mail,
                 tokenCall>>

\* the same call with the Deferred as the user: no account has that key
renew_account_for_user_no_row ==
  /\ rpc = "write"
  /\ ruser = Deferred
  /\ Returned("StoreFailure")
  /\ UNCHANGED <<now, store, faults, scanner, history>>

\* the caller of renew_account has taken the outcome
renew_account_returns ==
  /\ rpc \in {"ok", "UnknownToken", "StoreFailure"}
  /\ rpc' = "idle"
  /\ UNCHANGED <<now, store, faults, scanner, history, ruser, rts, rowner>>

\* ------------------------------------------------------ specification
Next ==
  \/ Tick
  \/ send_renewal_emails_query
  \/ send_renewal_emails_query_fails
  \/ user_get_threepids
  \/ user_get_threepids_fails
  \/ get_profile_displayname_found
  \/ get_profile_displayname_fallback
  \/ get_profile_displayname_raises
  \/ get_renewal_token_accepted
  \/ get_renewal_token_retry
  \/ get_renewal_token_exhausted
  \/ sendmail_ok
  \/ sendmail_fails
  \/ set_renewal_mail_status
  \/ set_renewal_mail_status_fails
  \/ renew_account_unknown_token
  \/ renew_account_resolved
  \/ renew_account_unawaited
  \/ renew_account_for_user
  \/ renew_account_for_user_no_row
  \/ renew_account_returns

Spec == Init /\ [][Next]_vars

\* The steps of send_renewal_emails.  The reactor resumes a coroutine when
\* the Deferred it waits for has fired, and the timer fires at every
\* period: a step of the scanner that stays possible is taken.
ScannerNext ==
  \/ send_renewal_emails_query
  \/ send_renewal_emails_query_fails
  \/ user_get_threepids
  \/ user_get_threepids_fails
  \/ get_profile_displayname_found
  \/ get_profile_displayname_fallback
  \/ get_profile_displayname_raises
  \/ get_renewal_token_accepted
  \/ get_renewal_token_retry
  \/ get_renewal_token_exhausted
  \/ sendmail_ok
  \/ sendmail_fails
  \/ set_renewal_mail_status
  \/ set_renewal_mail_status_fails

\* The scanner and the clock on their own, the scanner's steps being
\* taken as long as they stay possible.
FairSpec == Init /\ [][Tick \/ ScannerNext]_vars /\ WF_vars(ScannerNext)

TypeOK ==
  /\ now \in 0..MaxTime
  /\ attempts \in 0..MaxAttempts
  /\ faults \in 0..MaxFaults
  /\ pc \in {"idle", "threepids", "displayname", "token", "send", "mark"}
  /\ rpc \in {"idle", "write", "ok", "UnknownToken", "StoreFailure"}
  /\ url_token \in Tokens \cup {NoToken}
  /\ ruser \in Users \cup {NoUser, Deferred}

\* ------------------------------------------------------------ claims
\* the sendmail calls of the cycle made for an account
MailsTo(u) == {mail[i] : i \in {j \in DOMAIN mail : mail[j].user = u}}

CycleEnded == cyc.outcome \in {"ok", "failed"}

\* C1: an account whose notified flag is true when the cycle queries the
\* store is not among the cycle's candidates, whatever its expiration_ts;
\* the cycle takes it up at no point, issues no token for it and hands no
\* mail for it to the transport.
C1_NotifiedNotSelected ==
  \A u \in cyc.notifiedAtQuery :
    /\ u \notin cyc.candidates
    /\ u \notin cyc.started
    /\ u \notin cyc.tokenIssued
    /\ MailsTo(u) = {}

\* a finished cycle that processed a candidate while another account,
\* still inside the look-ahead window, was already notified
C1_Witness ==
  /\ pc = "idle"
  /\ cyc.outcome = "ok"
  /\ cyc.marked # {}
  /\ \E u \in cyc.notifiedAtQuery : Expiring(u)

\* C2: the cycle sets an account's notified flag only after its token was
\* issued and every send for it succeeded in this cycle; the account at
\* which a cycle failed (address resolution, token issuance, a send) has
\* its flag still false once the cycle has ended.
C2_NotifiedOnlyAfterDispatch ==
  /\ \A u \in cyc.marked :
       /\ u \in cyc.tokenIssued
       /\ \A a \in EmailsOf(u) : \E m \in MailsTo(u) : m.to = a /\ m.ok
       /\ \A m \in MailsTo(u) : m.ok
  /\ cyc.failed \in Users => ~email_sent[cyc.failed]

\* a cycle that marked one account and then failed in a send for another
C2_Witness ==
  /\ pc = "idle"
  /\ cyc.outcome = "failed"
  /\ cyc.stage = "send"
  /\ cyc.marked # {}
  /\ ~email_sent[cyc.failed]

\* C3: a cycle that has ended has taken up every one of its candidates,
\* also those that come after the candidate whose processing failed, and
\* has marked every candidate but the one that failed.
C3_FailureIsolation ==
  (CycleEnded /\ cyc.stage # "query") =>
     /\ cyc.started = cyc.candidates
     /\ cyc.candidates \ {cyc.failed} \subseteq cyc.marked

\* C4: one call of _get_renewal_token makes at most 5 store writes; when
\* it returns, the write it returns from is the first the store accepted
\* (every earlier one was rejected) and the store holds that token for the
\* account; when it raises, it does so after exactly 5 writes.
C4_RetryBound ==
  /\ tokenCall.tries <= 5
  /\ tokenCall.outcome = "exhausted" => tokenCall.tries = 5
  /\ tokenCall.outcome = "returned" =>
       /\ tokenCall.tries = attempts + 1
       /\ url_token \in Tokens
       /\ renewal_token[tokenCall.user] = url_token

\* a call that ran out of attempts
C4_Witness == tokenCall.outcome = "exhausted" /\ tokenCall.tries = 5

\* C5: no two distinct accounts hold the same renewal token.
C5_TokenUniqueness ==
  \A u, v \in Users :
    (u # v /\ renewal_token[u] # NoToken) => renewal_token[u] # renewal_token[v]

\* both accounts hold a token, the second issued after a collision
C5_Witness ==
  /\ \A u \in Users : renewal_token[u] # NoToken
  /\ tokenCall.outcome = "returned"
  /\ tokenCall.tries > 1

\* C6: when a renew_account call made with the token of an account
\* finishes, that account's expiration_ts is the clock time of the call
\* plus the validity period.
C6_RenewalArithmetic ==
  [][(rpc = "write" /\ rpc' # "write" /\ rowner \in Users)
       => expiration_ts'[rowner] = rts]_vars

\* a renew_account call made with a token that maps to no account ends here
TokenlessCallEnds ==
  \/ rpc = "idle" /\ rpc' = "UnknownToken"
  \/ rpc = "write" /\ rpc' # "write" /\ rowner = NoUser

\* C7: a renew_account call made with a token that maps to no account
\* ends in the unknown-token error and changes no account's
\* expiration_ts, notified flag or token.
C7_UnknownToken ==
  [][TokenlessCallEnds =>
       /\ rpc' = "UnknownToken"
       /\ UNCHANGED <<expiration_ts, email_sent, renewal_token>>]_vars

\* C8: when the dispatch for an account has failed, a send was attempted
\* for every address of the account and every one of them failed.
C8_AddressIsolation ==
  \A u \in Users :
    (cyc.failed = u /\ cyc.stage = "send") =>
       /\ {m.to : m \in MailsTo(u)} = EmailsOf(u)
       /\ \A m \in MailsTo(u) : ~m.ok

\* C9 as stated: between two renewals of an account no address of it is
\* mailed more than once.
C9_AtMostOnce == \A a \in Addresses : sentOK[a] <= 1

\* C9 amended: between two renewals of an account, one cycle calls
\* sendmail at most once per address, the cycle that marks the account
\* has mailed each of its addresses, and an address is mailed at most once
\* more than the number of the account's cycles that failed in a send or
\* in the flag update.
C9_AtLeastOnce ==
  \A u \in Users : \A a \in EmailsOf(u) :
    /\ Cardinality({i \in DOMAIN mail : mail[i].to = a}) <= 1
    /\ u \in cyc.marked => \E m \in MailsTo(u) : m.to = a /\ m.ok
    /\ sentOK[a] <= 1 + failures[u]

\* an address mailed a second time, after a cycle of its account failed
C9_Witness ==
  \E u \in Users : \E a \in EmailsOf(u) :
    sentOK[a] = 2 /\ failures[u] = 1 /\ email_sent[u]

\* C10: once a scan cycle and a renewal that landed while the cycle held
\* the account have both finished, the account is not left renewed and
\* with notified = true written by that cycle.
C10_NoLostClear ==
  (pc = "idle" /\ rpc # "write") =>
     \A u \in Users : ~(raced[u] /\ email_sent[u])

EmailThreepids(u) ==
  {threepids[u][i].address :
     i \in {j \in DOMAIN threepids[u] : threepids[u][j].medium = "email"}}

\* the positions in mail of the sendmail calls made for an account
MailIndex(u) == {j \in DOMAIN mail : mail[j].user = u}

\* C12: a cycle that took an account with n >= 1 email addresses through
\* without a failure has issued a token for it, has handed exactly n
\* messages to the transport, one to each address of medium "email" and
\* none to a threepid of another medium, every message carrying the one
\* token stored for the account, and has then set notified = true (which
\* stays set until the account is renewed).
C12_OneTokenOneMailPerAddress ==
  \A u \in cyc.marked :
     EmailThreepids(u) # {} =>
        /\ u \in cyc.tokenIssued
        /\ renewal_token[u] \in Tokens
        /\ Cardinality(MailIndex(u)) = Cardinality(EmailThreepids(u))
        /\ {mail[j].to : j \in MailIndex(u)} = EmailThreepids(u)
        /\ \A j \in MailIndex(u) :
              mail[j].ok /\ mail[j].token = renewal_token[u]
        /\ \/ email_sent[u]
           \/ \A a \in EmailThreepids(u) : sentOK[a] = 0  \* renewed since

\* u1 with the addresses a1 and a2 (and the phone number p1) has been
\* taken through a cycle in a behaviour without any failure
C12_Witness ==
  /\ "u1" \in cyc.marked
  /\ EmailThreepids("u1") = {"a1", "a2"}
  /\ Len(threepids["u1"]) = 3
  /\ faults = 0
  /\ email_sent["u1"]

\* renew_account, called with the token of an account, comes to its end
RedemptionEnds == rpc = "write" /\ rpc' # "write" /\ rowner \in Users

\* a scan cycle starts: its query has answered
CycleStarts == pc = "idle" /\ cyc' # cyc /\ cyc'.stage # "query"

\* C13: when a token of an account has been redeemed at time T the
\* account's expiration is exactly T + Period, and a scan cycle that
\* starts later selects only accounts whose expiration lies inside its
\* look-ahead window, so not the renewed account while T + Period is
\* outside of it.
C13_RenewedNotReselected ==
  [][ /\ RedemptionEnds => expiration_ts'[rowner] = rts
      /\ CycleStarts =>
            \A u \in cyc'.candidates :
               now <= expiration_ts[u] /\ expiration_ts[u] <= now + Window
    ]_vars

\* C14: the redemption of the token of a notified account leaves the
\* account with notified = false, and a scan cycle that starts selects
\* every account that is then expiring-soon and not notified.
C14_RenewalClearsNotified ==
  [][ /\ (RedemptionEnds /\ email_sent[rowner]) => ~email_sent'[rowner]
      /\ CycleStarts =>
            \A u \in Users :
               (Expiring(u) /\ ~email_sent[u]) => u \in cyc'.candidates
    ]_vars

\* C15: every redemption of a token that an account holds, also one that
\* follows earlier redemptions of the same token, succeeds, sets the
\* account's expiration to that call's now + Period, and leaves the token
\* with the account.
C15_TokenStaysValid ==
  [][ RedemptionEnds =>
        /\ rpc' = "ok"
        /\ expiration_ts'[rowner] = rts
        /\ rts <= now + Period
        /\ renewal_token'[rowner] = renewal_token[rowner]
    ]_vars

\* C16: when the issuance of a token for an account has failed after its
\* 5 attempts, the error has reached send_renewal_emails, the account has
\* been handed no mail and has no token of that cycle, and only that
\* account's turn is lost: every other candidate of the cycle is taken up.
C16_ExhaustionAbortsOneIteration ==
  (CycleEnded /\ cyc.stage = "token") =>
     /\ cyc.failed \in Users
     /\ tokenCall.user = cyc.failed
     /\ tokenCall.tries = MaxAttempts
     /\ MailsTo(cyc.failed) = {}
     /\ cyc.failed \notin cyc.tokenIssued
     /\ cyc.started = cyc.candidates

\* C17: the profile lookup never ends the processing of an account: no
\* cycle fails in it, and past it the display name is the profile's name
\* or, when the lookup failed or had no name, the account identifier.
C17_DisplayNameFallback ==
  /\ ~(CycleEnded /\ cyc.stage = "displayname")
  /\ pc \in {"token", "send", "mark"} =>
        user_display_name \in {"profile", CurrentUser}

\* C18: an account without an email address that a cycle has taken up is
\* handed no mail and is no error in the send loop: after its token the
\* cycle goes to the flag update and on to the next candidate, and a
\* cycle without a failure ends with every candidate marked.
C18_ZeroAddressesNoOp ==
  \A u \in cyc.started :
     EmailThreepids(u) = {} =>
        /\ MailsTo(u) = {}
        /\ ~(cyc.failed = u /\ cyc.stage = "send")
        /\ (pc # "idle" /\ CurrentUser = u) => pc # "send"
        /\ (pc # "idle" /\ CurrentUser = u /\ u \in cyc.tokenIssued) =>
              pc = "mark"
        /\ (pc = "idle" /\ cyc.failed = NoUser) =>
              cyc.outcome = "ok" /\ cyc.marked = cyc.candidates

\* u1, who has a phone number only, went through and u2 is taken up next
C18_Witness ==
  /\ EmailThreepids("u1") = {}
  /\ cyc.marked = {"u1"}
  /\ mail = <<>>
  /\ pc = "threepids"
  /\ CurrentUser = "u2"

\* C19: the token a renewal mail carries was persisted for the recipient's
\* account before the send: the send loop runs only with a token the
\* store accepted for the account in this processing step, and the token
\* of every mail handed to the transport resolves to the account the mail
\* was made for.
C19_TokenBeforeMail ==
  /\ pc = "send" =>
        /\ url_token \in Tokens
        /\ CurrentUser \in cyc.tokenIssued
        /\ renewal_token[CurrentUser] = url_token
  /\ \A j \in DOMAIN mail :
        /\ mail[j].token \in Tokens
        /\ get_user_from_renewal_token(mail[j].token) = mail[j].user

\* a mail has gone out for an account whose token was accepted only after
\* the store had rejected an earlier one, and another send is due
C19_Witness ==
  /\ pc = "send"
  /\ attempts > 0
  /\ mail # <<>>
  /\ mail[Len(mail)].user = CurrentUser
  /\ mail[Len(mail)].ok

\* C20: a step of renew_account changes at most the expiration and the
\* notified flag of the account its token belongs to, and neither another
\* account, nor a token, nor the mails handed to the transport; a step of
\* the scan cycle changes no expiration, and a token or a notified flag
\* only of an account the cycle has selected.
C20_Frame ==
  [][ /\ rpc' # rpc =>
            /\ \A u \in Users \ {rowner} :
                  /\ expiration_ts'[u] = expiration_ts[u]
                  /\ email_sent'[u] = email_sent[u]
            /\ renewal_token' = renewal_token
            /\ mail' = mail
      /\ rpc' = rpc =>
            /\ expiration_ts' = expiration_ts
            /\ \A u \in Users :
                  (\/ renewal_token'[u] # renewal_token[u]
                   \/ email_sent'[u] # email_sent[u]) =>
                     u \in cyc.candidates /\ u = CurrentUser
    ]_vars

\* one account has been renewed while the other, mailed and marked by a
\* scan cycle, keeps its token, its flag and its expiration
C20_Witness ==
  \E u, v \in Users :
     /\ u # v
     /\ rpc = "ok"
     /\ expiration_ts[u] >= Period
     /\ ~email_sent[u]
     /\ renewal_token[u] \in Tokens
     /\ v \in cyc.marked
     /\ email_sent[v]
     /\ renewal_token[v] \in Tokens
     /\ expiration_ts[v] < Period

====
